---- MODULE Spec2Model ----
(***************************************************************************)
(* ProductCatalogViewModel (lab-3/part-4): a catalog of Product objects    *)
(* and a list of zero-argument observers that are notified, synchronously, *)
(* after every mutation of the catalog.                                    *)
(*                                                                         *)
(* JavaScript objects are modelled by reference: `heap` holds the Product  *)
(* objects, `products` (this.products) holds references to them; every     *)
(* addProduct call is given a newly created Product, as in the demo.       *)
(* The array this.observers is an object too: the loop                     *)
(* `for (const observer of this.observers)` iterates the array object it   *)
(* was started on, addObserver pushes onto the current object in place,    *)
(* removeObserver replaces it by a new one.  A notification round is a     *)
(* frame on `stack`; a subscriber runs inside a round and may call back    *)
(* into the view model.  Spec has subscribers that render, register,       *)
(* unregister or throw; ReentrantSpec has subscribers that render, throw   *)
(* or mutate the catalog from inside the round.                            *)
(*                                                                         *)
(* The component library of lab-1 (README.md) gives the Button and the     *)
(* InputField components.  ComponentSpec mounts an InputField, types into  *)
(* it and renders Buttons; a text is a sequence of characters, an optional *)
(* prop that is omitted is a key the props record does not have.           *)
(***************************************************************************)
EXTENDS Integers, Sequences, FiniteSets, TLC

VARIABLES
    products,    \* this.products: sequence of references into heap
    heap,        \* the Product objects created so far, by reference
    observers,   \* this.observers: the current array of callbacks
    stack,       \* the notification rounds in progress, innermost last
    outcome,     \* how the latest view-model call stands
    lastOp,      \* the latest view-model call: who made it, with what
    added,       \* history: the references passed to addProduct, in order
    demoOn,      \* the run so far is a prefix of the demo script
    demoPc,      \* the number of demo script calls made so far
    demoCount,   \* invocations of the demo's subscriber so far
    fieldProps,  \* InputField: the props of the mounted instance
    value,       \* InputField: useState value
    errorMessage,\* InputField: useState errorMessage
    lastOnChange,\* InputField: the argument of the latest onChange call, if any
    button,      \* Button: the props and the result of the latest render
    lastEvent    \* the latest component event

vmVars == <<products, heap, observers, stack, outcome, lastOp,
            added, demoOn, demoPc, demoCount>>

componentVars == <<fieldProps, value, errorMessage, lastOnChange,
                   button, lastEvent>>

vars == <<products, heap, observers, stack, outcome, lastOp,
          added, demoOn, demoPc, demoCount,
          fieldProps, value, errorMessage, lastOnChange, button, lastEvent>>

(* ------------------------------ bounds -------------------------------- *)
MaxProducts == 2
MaxObs == 3
MaxDepth == 2
MaxLen == 6

(* ------------------------------ inputs -------------------------------- *)
\* new Product(id, name, price, quantity); price in tenths (0.5 is 5)
Product(id, name, price, quantity) ==
    [id |-> id, name |-> name, price |-> price, quantity |-> quantity]

Apple == Product(1, "Apple", 5, 100)
Banana == Product(2, "Banana", 3, 150)

Templates == {Apple, Banana}
Callbacks == {"cbA", "cbB", "cbC"}
Ids == {1, 2, 3}
Quantities == {80, 100}
DemoCallback == "cbA"

(* ------------------------------ helpers ------------------------------- *)
Range(s) == {s[i] : i \in DOMAIN s}

IsPrefix(s, t) == Len(s) <= Len(t) /\ SubSeq(t, 1, Len(s)) = s

\* a find that scans from the end
FindLast(productId) ==
    LET hits == {i \in DOMAIN products : heap[products[i]].id = productId}
    IN  IF hits = {} THEN 0 ELSE CHOOSE i \in hits : \A j \in hits : j <= i

\* Array.prototype.find(p => p.id === productId): index of the first
\* catalog entry whose product has that id, 0 when there is none
Find(productId) ==
    LET hits == {i \in DOMAIN products : heap[products[i]].id = productId}
    IN  IF hits = {} THEN 0 ELSE CHOOSE i \in hits : \A j \in hits : i <= j

\* a removal of the first occurrence only (indexOf/splice)
RECURSIVE FilterFirst(_, _)
FilterFirst(s, observer) ==
    IF s = <<>> THEN <<>>
    ELSE IF Head(s) = observer THEN Tail(s)
    ELSE <<Head(s)>> \o FilterFirst(Tail(s), observer)

\* Array.prototype.filter(obs => obs !== observer)
RECURSIVE Filter(_, _)
Filter(s, observer) ==
    IF s = <<>> THEN <<>>
    ELSE IF Head(s) = observer THEN Filter(Tail(s), observer)
    ELSE <<Head(s)>> \o Filter(Tail(s), observer)

\* getProducts(): the live catalog
GetProducts == products

\* what renderProductList draws: one <li> per product, name/price/quantity
Rendered ==
    [i \in DOMAIN GetProducts |->
        [name |-> heap[GetProducts[i]].name,
         price |-> heap[GetProducts[i]].price,
         quantity |-> heap[GetProducts[i]].quantity]]

(* --------------------------- call contexts ---------------------------- *)
NoOp == [caller |-> "none", op |-> "new", obs |-> "none",
         ref |-> 0, id |-> 0, q |-> 0, found |-> FALSE]

Idle == stack = <<>>

Top == stack[Len(stack)]

\* the for-of iterator of the innermost round has a next element
CanInvoke == stack # <<>> /\ Top.idx < Len(Top.arr)

NextObserver == Top.arr[Top.idx + 1]

\* the stack while the invoked subscriber runs: the iterator has advanced
Advanced ==
    [stack EXCEPT ![Len(stack)] =
        [@ EXCEPT !.idx = @ + 1, !.log = Append(@, NextObserver)]]

\* notifyObservers() entered: the for-of loop takes this.observers
Frame(kind, ref, q) ==
    [kind |-> kind, ref |-> ref, q |-> q, arr |-> observers, idx |-> 0,
     live |-> TRUE, reg |-> observers, log |-> <<>>, overridden |-> FALSE]

(* ---------------------------- demo script ----------------------------- *)
\* part_000: addObserver(render); addProduct(Apple); addProduct(Banana);
\* then, from the timer, updateQuantity(1, 80)
DemoMatches(n, op, hp) ==
    /\ op.caller = "external"
    /\ \/ n = 1 /\ op.op = "addObserver" /\ op.obs = DemoCallback
       \/ n = 2 /\ op.op = "addProduct" /\ op.ref = Len(heap) + 1
                /\ hp[op.ref] = Apple
       \/ n = 3 /\ op.op = "addProduct" /\ op.ref = Len(heap) + 1
                /\ hp[op.ref] = Banana
       \/ n = 4 /\ op.op = "updateQuantity" /\ op.id = 1 /\ op.q = 80

\* the subscriber of the demo is () => renderProductList(viewModel)
DemoStays(op) ==
    \/ op.op = "return"
    \/ op.caller = DemoCallback /\ op.op = "render"

Monitor(op, hp) ==
    LET on == demoOn /\ (DemoMatches(demoPc + 1, op, hp) \/ DemoStays(op))
    IN  /\ demoOn' = on
        /\ demoPc' = IF ~on THEN 0
                     ELSE IF op.caller = "external" THEN demoPc + 1
                     ELSE demoPc
        /\ demoCount' = IF ~on THEN 0
                        ELSE IF op.caller \in Callbacks THEN demoCount + 1
                        ELSE demoCount

(* ------------------------ ProductCatalogViewModel --------------------- *)
\* Every method is written for a caller: "external" code calling with no
\* round in progress (base = stack), or the subscriber the innermost round
\* has just invoked (base = Advanced).

Called(caller, name) == [NoOp EXCEPT !.caller = caller, !.op = name]

\* a nested updateQuantity of the same object overrides what the rounds in
\* progress for it have set (history, kept in the frames)
Override(base, ref) ==
    [i \in DOMAIN base |->
        IF base[i].ref = ref /\ base[i].kind = "updateQuantity"
        THEN [base[i] EXCEPT !.overridden = TRUE] ELSE base[i]]

\* a mutation that forgets to notify
NotifyNothing(base, kind, ref, q) == stack' = base

\* notifyObservers(), entered: a new round over this.observers
NotifyObservers(base, kind, ref, q) == stack' = Append(base, Frame(kind, ref, q))

\* addProduct with unshift instead of push
AddProductFront(caller, base, product, hp) ==
    LET op == [Called(caller, "addProduct") EXCEPT !.ref = product]
    IN  /\ products' = <<product>> \o products
        /\ heap' = hp
        /\ NotifyObservers(base, "addProduct", product, hp[product].quantity)
        /\ outcome' = "running"
        /\ added' = Append(added, product)
        /\ lastOp' = op
        /\ UNCHANGED observers
        /\ Monitor(op, hp)

\* addProduct that enforces unique ids: a duplicate id is not pushed
AddProductUnique(caller, base, product, hp) ==
    LET op == [Called(caller, "addProduct") EXCEPT !.ref = product]
    IN  /\ products' = IF Find(hp[product].id) # 0 THEN products
                       ELSE Append(products, product)
        /\ heap' = hp
        /\ NotifyObservers(base, "addProduct", product, hp[product].quantity)
        /\ outcome' = "running"
        /\ added' = Append(added, product)
        /\ lastOp' = op
        /\ UNCHANGED observers
        /\ Monitor(op, hp)

\* addProduct that notifies before it pushes
AddProductNotifyFirst(caller, base, product, hp) ==
    LET op == [Called(caller, "addProduct") EXCEPT !.ref = product]
    IN  /\ NotifyObservers(base, "addProduct", product, hp[product].quantity)
        /\ products' = products
        /\ heap' = hp
        /\ outcome' = "running"
        /\ added' = Append(added, product)
        /\ lastOp' = op
        /\ UNCHANGED observers
        /\ Monitor(op, hp)

\* addProduct(product): product is a reference into hp, the heap with the
\* object the caller has just created
AddProduct(caller, base, product, hp) ==
    LET op == [Called(caller, "addProduct") EXCEPT !.ref = product]
    IN  /\ products' = Append(products, product)
        /\ heap' = hp
        /\ NotifyObservers(base, "addProduct", product, hp[product].quantity)
        /\ outcome' = "running"
        /\ added' = Append(added, product)
        /\ lastOp' = op
        /\ UNCHANGED observers
        /\ Monitor(op, hp)

\* updateQuantity written with filter/forEach: every product with the id
UpdateQuantityAll(caller, base, productId, newQuantity) ==
    LET i == Find(productId)
        same == {r \in DOMAIN heap : heap[r].id = productId /\ r \in Range(products)}
        op == [Called(caller, "updateQuantity") EXCEPT
                  !.id = productId, !.q = newQuantity, !.found = (i # 0),
                  !.ref = IF i # 0 THEN products[i] ELSE 0]
    IN  /\ IF i # 0
           THEN /\ heap' = [r \in DOMAIN heap |->
                               IF r \in same
                               THEN [heap[r] EXCEPT !.quantity = newQuantity]
                               ELSE heap[r]]
                /\ NotifyObservers(Override(base, products[i]),
                                   "updateQuantity", products[i], newQuantity)
                /\ outcome' = "running"
           ELSE /\ heap' = heap
                /\ stack' = base
                /\ outcome' = "returned"
        /\ lastOp' = op
        /\ UNCHANGED <<products, observers, added>>
        /\ Monitor(op, heap')

\* updateQuantity without `if (product)`: undefined.quantity is a TypeError
UpdateQuantityUnguarded(caller, base, productId, newQuantity) ==
    LET i == Find(productId)
        op == [Called(caller, "updateQuantity") EXCEPT
                  !.id = productId, !.q = newQuantity, !.found = (i # 0),
                  !.ref = IF i # 0 THEN products[i] ELSE 0]
    IN  /\ IF i # 0
           THEN /\ heap' = [heap EXCEPT ![products[i]].quantity = newQuantity]
                /\ NotifyObservers(Override(base, products[i]),
                                   "updateQuantity", products[i], newQuantity)
                /\ outcome' = "running"
           ELSE /\ heap' = heap
                /\ stack' = <<>>
                /\ outcome' = "threw"
        /\ lastOp' = op
        /\ UNCHANGED <<products, observers, added>>
        /\ Monitor(op, heap')

\* updateQuantity with notifyObservers() after the `if`, not inside it
UpdateQuantityAlwaysNotifies(caller, base, productId, newQuantity) ==
    LET i == Find(productId)
        op == [Called(caller, "updateQuantity") EXCEPT
                  !.id = productId, !.q = newQuantity, !.found = (i # 0),
                  !.ref = IF i # 0 THEN products[i] ELSE 0]
    IN  /\ IF i # 0
           THEN /\ heap' = [heap EXCEPT ![products[i]].quantity = newQuantity]
                /\ NotifyObservers(Override(base, products[i]),
                                   "updateQuantity", products[i], newQuantity)
           ELSE /\ heap' = heap
                /\ NotifyObservers(base, "updateQuantity", 0, newQuantity)
        /\ outcome' = "running"
        /\ lastOp' = op
        /\ UNCHANGED <<products, observers, added>>
        /\ Monitor(op, heap')

\* updateQuantity(productId, newQuantity)
UpdateQuantity(caller, base, productId, newQuantity) ==
    LET i == Find(productId)
        op == [Called(caller, "updateQuantity") EXCEPT
                  !.id = productId, !.q = newQuantity, !.found = (i # 0),
                  !.ref = IF i # 0 THEN products[i] ELSE 0]
    IN  /\ IF i # 0
           THEN /\ heap' = [heap EXCEPT ![products[i]].quantity = newQuantity]
                /\ NotifyObservers(Override(base, products[i]),
                                   "updateQuantity", products[i], newQuantity)
                /\ outcome' = "running"
           ELSE /\ heap' = heap
                /\ stack' = base
                /\ outcome' = "returned"
        /\ lastOp' = op
        /\ UNCHANGED <<products, observers, added>>
        /\ Monitor(op, heap')

\* addObserver that replaces the array: this.observers = [...this.observers,
\* observer]
AddObserverCopy(caller, base, observer) ==
    LET op == [Called(caller, "addObserver") EXCEPT !.obs = observer]
    IN  /\ observers' = Append(observers, observer)
        /\ stack' = [i \in DOMAIN base |-> [base[i] EXCEPT !.live = FALSE]]
        /\ outcome' = "returned"
        /\ lastOp' = op
        /\ UNCHANGED <<products, heap, added>>
        /\ Monitor(op, heap)

\* addObserver that notifies once it has pushed
AddObserverNotifies(caller, base, observer) ==
    LET op == [Called(caller, "addObserver") EXCEPT !.obs = observer]
    IN  /\ observers' = Append(observers, observer)
        /\ stack' = Append([i \in DOMAIN base |->
                               IF base[i].live
                               THEN [base[i] EXCEPT !.arr = Append(@, observer)]
                               ELSE base[i]],
                           [Frame("addObserver", 0, 0) EXCEPT
                               !.arr = Append(observers, observer),
                               !.reg = Append(observers, observer)])
        /\ outcome' = "running"
        /\ lastOp' = op
        /\ UNCHANGED <<products, heap, added>>
        /\ Monitor(op, heap)

\* addObserver(observer): push, in place, onto the current array object, which
\* the rounds that started on it are still iterating
AddObserver(caller, base, observer) ==
    LET op == [Called(caller, "addObserver") EXCEPT !.obs = observer]
    IN  /\ observers' = Append(observers, observer)
        /\ stack' = [i \in DOMAIN base |->
                        IF base[i].live
                        THEN [base[i] EXCEPT !.arr = Append(@, observer)]
                        ELSE base[i]]
        /\ outcome' = "returned"
        /\ lastOp' = op
        /\ UNCHANGED <<products, heap, added>>
        /\ Monitor(op, heap)

\* removeObserver that splices the array in place, under the iterators
RemoveObserverInPlace(caller, base, observer) ==
    LET op == [Called(caller, "removeObserver") EXCEPT !.obs = observer]
    IN  /\ observers' = Filter(observers, observer)
        /\ stack' = [i \in DOMAIN base |->
                        IF base[i].live
                        THEN [base[i] EXCEPT !.arr = Filter(@, observer)]
                        ELSE base[i]]
        /\ outcome' = "returned"
        /\ lastOp' = op
        /\ UNCHANGED <<products, heap, added>>
        /\ Monitor(op, heap)

\* removeObserver(observer): this.observers becomes a new, filtered array; the
\* rounds in progress keep iterating the array object they started on
RemoveObserver(caller, base, observer) ==
    LET op == [Called(caller, "removeObserver") EXCEPT !.obs = observer]
    IN  /\ observers' = Filter(observers, observer)
        /\ stack' = [i \in DOMAIN base |-> [base[i] EXCEPT !.live = FALSE]]
        /\ outcome' = "returned"
        /\ lastOp' = op
        /\ UNCHANGED <<products, heap, added>>
        /\ Monitor(op, heap)

(* ------------------------------ actions ------------------------------- *)
\* the heap once the caller of addProduct has created its new Product(...)
NewHeap(t) == Append(heap, t)

ExtAddProduct ==
    /\ Idle
    /\ Len(products) < MaxProducts
    /\ \E t \in Templates :
          AddProduct("external", stack, Len(heap) + 1, NewHeap(t))
    /\ UNCHANGED componentVars

ExtUpdateQuantity ==
    /\ Idle
    /\ \E id \in Ids, q \in Quantities : UpdateQuantity("external", stack, id, q)
    /\ UNCHANGED componentVars

ExtGetProducts ==
    /\ Idle
    /\ lastOp' = Called("external", "getProducts")
    /\ outcome' = "returned"
    /\ UNCHANGED <<products, heap, observers, stack, added>>
    /\ Monitor(Called("external", "getProducts"), heap)
    /\ UNCHANGED componentVars

ExtAddObserver ==
    /\ Idle
    /\ Len(observers) < MaxObs
    /\ \E c \in Callbacks : AddObserver("external", stack, c)
    /\ UNCHANGED componentVars

ExtRemoveObserver ==
    /\ Idle
    /\ \E c \in Callbacks : RemoveObserver("external", stack, c)
    /\ UNCHANGED componentVars

\* for (const observer of this.observers) observer(): the next subscriber
\* is invoked and runs one of the bodies below

\* () => renderProductList(viewModel)
SubRender ==
    /\ CanInvoke
    /\ stack' = Advanced
    /\ outcome' = "running"
    /\ lastOp' = Called(NextObserver, "render")
    /\ UNCHANGED <<products, heap, observers, added>>
    /\ Monitor(Called(NextObserver, "render"), heap)
    /\ UNCHANGED componentVars

SubAddObserver ==
    /\ CanInvoke
    /\ Len(observers) < MaxObs
    /\ \E c \in Callbacks : AddObserver(NextObserver, Advanced, c)
    /\ UNCHANGED componentVars

SubRemoveObserver ==
    /\ CanInvoke
    /\ \E c \in Callbacks : RemoveObserver(NextObserver, Advanced, c)
    /\ UNCHANGED componentVars

SubAddProduct ==
    /\ CanInvoke
    /\ Len(stack) < MaxDepth
    /\ Len(products) < MaxProducts
    /\ \E t \in Templates :
          AddProduct(NextObserver, Advanced, Len(heap) + 1, NewHeap(t))
    /\ UNCHANGED componentVars

SubUpdateQuantity ==
    /\ CanInvoke
    /\ \E id \in Ids, q \in Quantities :
          /\ Find(id) # 0 => Len(stack) < MaxDepth
          /\ UpdateQuantity(NextObserver, Advanced, id, q)
    /\ UNCHANGED componentVars

\* a notifyObservers that catches what a subscriber throws and goes on
SubThrowSwallowed ==
    /\ CanInvoke
    /\ stack' = Advanced
    /\ outcome' = "running"
    /\ lastOp' = Called(NextObserver, "throw")
    /\ UNCHANGED <<products, heap, observers, added>>
    /\ Monitor(Called(NextObserver, "throw"), heap)
    /\ UNCHANGED componentVars

\* a round that undoes the push of its addProduct when a subscriber throws
SubThrowRollsBack ==
    /\ CanInvoke
    /\ stack' = <<>>
    /\ outcome' = "threw"
    /\ lastOp' = Called(NextObserver, "throw")
    /\ products' = IF Top.kind = "addProduct"
                   THEN SelectSeq(products, LAMBDA r : r # Top.ref)
                   ELSE products
    /\ UNCHANGED <<heap, observers, added>>
    /\ Monitor(Called(NextObserver, "throw"), heap)
    /\ UNCHANGED componentVars

\* the subscriber throws: nothing in the view model catches, so the
\* exception leaves every round in progress
SubThrow ==
    /\ CanInvoke
    /\ stack' = <<>>
    /\ outcome' = "threw"
    /\ lastOp' = Called(NextObserver, "throw")
    /\ UNCHANGED <<products, heap, observers, added>>
    /\ Monitor(Called(NextObserver, "throw"), heap)
    /\ UNCHANGED componentVars

\* the for-of loop is over: notifyObservers and its caller return
NotifyReturn ==
    /\ stack # <<>>
    /\ ~CanInvoke
    /\ stack' = SubSeq(stack, 1, Len(stack) - 1)
    /\ outcome' = "returned"
    /\ lastOp' = Called("none", "return")
    /\ UNCHANGED <<products, heap, observers, added>>
    /\ Monitor(Called("none", "return"), heap)
    /\ UNCHANGED componentVars

(* ------------------- component library (lab-1 README) ----------------- *)
\* the value undefined, and the state before anything is mounted/rendered
Undefined == "(undefined)"
Unmounted == [mounted |-> FALSE]
NotRendered == [rendered |-> FALSE]

\* texts are sequences of characters; a number is kept apart from a text by
\* its typeof
Alphabet == {"a", "b"}
Texts == UNION {[1..n -> Alphabet] : n \in 0..MaxLen}
Numbers == {7, 12345}
InitialValues ==
    {[typeof |-> "string", v |-> t] : t \in {<<>>, <<"a", "b">>}}
        \cup {[typeof |-> "number", v |-> n] : n \in Numbers}

\* an optional prop: omitted, or given with one of vals
Optional(key, vals) == {<<>>} \cup {[k \in {key} |-> x] : x \in vals}

Has(props, key) == key \in DOMAIN props

\* Number.prototype.toString(): the decimal digits
Digits == <<"0", "1", "2", "3", "4", "5", "6", "7", "8", "9">>

RECURSIVE toString(_)
toString(n) ==
    IF n < 10 THEN <<Digits[n + 1]>>
    ELSE Append(toString(n \div 10), Digits[(n % 10) + 1])

\* type Variants = "primary" | "secondary" | "tertiary"
Variants == {"primary", "secondary", "tertiary"}

\* what a caller can pass as variant at run time
VariantInputs == Variants \cup {"danger", ""}

\* a type guard that takes an omitted variant for the default one
isValidVariantDefault(variant) ==
    (IF variant = Undefined THEN "primary" ELSE variant) \in Variants

\* ["primary", "secondary", "tertiary"].includes(variant || "")
isValidVariant(variant) ==
    (IF variant \in {Undefined, ""} THEN "" ELSE variant) \in Variants

\* Button({ value, onClick, disabled, variant }): what the render gives, an
\* Error thrown or the TouchableOpacity element
Button(props) ==
    LET variant == IF Has(props, "variant") THEN props.variant ELSE Undefined
        disabled == Has(props, "disabled") /\ props.disabled
    IN  IF ~isValidVariant(variant)
        THEN [threw |-> "Invalid variant"]
        ELSE [style |-> IF disabled THEN <<"button", "disabled">>
                        ELSE <<"button">>,
              onPress |-> Has(props, "onClick"),
              disabled |-> disabled,
              text |-> props.value]

ButtonInputs ==
    {[value |-> v] @@ c @@ d @@ w :
        v \in {"Save"},
        c \in Optional("onClick", {"fn"}),
        d \in Optional("disabled", BOOLEAN),
        w \in Optional("variant", VariantInputs)}

\* value.length < 5
MinLength == 5

getInitialValue(initialValue) ==
    IF initialValue.typeof = "number" THEN toString(initialValue.v)
    ELSE initialValue.v

\* the template literals, as the sequence of their pieces
getErrorMessage(v, error) ==
    CASE error = "minLength" -> <<"The value \"">> \o v \o <<"\" is too short">>
      [] error = "maxLength" -> <<"The value \"">> \o v \o <<"\" is too long">>
      [] OTHER -> <<"Invalid value">>

\* InputField({ initialValue, onChange, disabled }), first render: the two
\* useState hooks
InputField(initialValue, optional) ==
    /\ fieldProps' = [mounted |-> TRUE] @@ optional
    /\ value' = getInitialValue(initialValue)
    /\ errorMessage' = <<>>
    /\ lastOnChange' = <<>>
    /\ lastEvent' = "mount"
    /\ UNCHANGED button

\* handleChange(value)
handleChange(v) ==
    /\ errorMessage' = IF Len(v) < MinLength
                       THEN getErrorMessage(v, "minLength")
                       ELSE <<>>
    /\ value' = v
    /\ lastOnChange' = IF Has(fieldProps, "onChange") THEN <<v>>
                       ELSE lastOnChange
    /\ lastEvent' = "handleChange"
    /\ UNCHANGED <<fieldProps, button>>

MountInputField ==
    /\ \E iv \in InitialValues,
          c \in Optional("onChange", {"fn"}),
          d \in Optional("disabled", BOOLEAN) : InputField(iv, c @@ d)
    /\ UNCHANGED vmVars

\* onChangeText={handleChange} editable={!disabled}
ChangeText ==
    /\ fieldProps.mounted
    /\ ~(Has(fieldProps, "disabled") /\ fieldProps.disabled)
    /\ \E v \in Texts : handleChange(v)
    /\ UNCHANGED vmVars

RenderButton ==
    /\ \E props \in ButtonInputs :
          button' = [props |-> props, result |-> Button(props)]
    /\ lastEvent' = "render"
    /\ UNCHANGED <<fieldProps, value, errorMessage, lastOnChange>>
    /\ UNCHANGED vmVars

Init ==
    /\ products = <<>>
    /\ heap = <<>>
    /\ observers = <<>>
    /\ stack = <<>>
    /\ outcome = "returned"
    /\ lastOp = NoOp
    /\ added = <<>>
    /\ demoOn = TRUE
    /\ demoPc = 0
    /\ demoCount = 0
    /\ fieldProps = Unmounted
    /\ value = <<>>
    /\ errorMessage = <<>>
    /\ lastOnChange = <<>>
    /\ button = NotRendered
    /\ lastEvent = "none"

Next ==
    \/ ExtAddProduct
    \/ ExtUpdateQuantity
    \/ ExtGetProducts
    \/ ExtAddObserver
    \/ ExtRemoveObserver
    \/ SubRender
    \/ SubAddObserver
    \/ SubRemoveObserver
    \/ SubThrow
    \/ NotifyReturn

\* subscribers that also mutate the catalog from inside a round
NextReentrant ==
    \/ ExtAddProduct
    \/ ExtUpdateQuantity
    \/ ExtAddObserver
    \/ ExtRemoveObserver
    \/ SubRender
    \/ SubAddProduct
    \/ SubUpdateQuantity
    \/ SubThrow
    \/ NotifyReturn

Spec == Init /\ [][Next]_vars

ReentrantSpec == Init /\ [][NextReentrant]_vars

\* the components of the library, mounted, typed into and rendered
ComponentNext ==
    \/ MountInputField
    \/ ChangeText
    \/ RenderButton

ComponentSpec == Init /\ [][ComponentNext]_vars

(* ------------------------------ claims -------------------------------- *)
\* A step is described by lastOp': the call made, by whom, with what.  A
\* subscriber is invoked exactly in the steps whose caller is a callback.
Invokes == lastOp'.caller \in Callbacks

\* the stack the caller of this step's call runs on
CallerStack == IF Invokes THEN Advanced ELSE stack

RECURSIVE Count(_, _)
Count(c, s) ==
    IF s = <<>> THEN 0
    ELSE (IF Head(s) = c THEN 1 ELSE 0) + Count(c, Tail(s))

Values == [i \in DOMAIN GetProducts |-> heap[GetProducts[i]]]

\* C1 as stated: every addProduct and every updateQuantity call, whatever
\* its arguments, has invoked each subscriber registered at the time of
\* the call, once per registration and in registration order, when it
\* returns.
C1_EveryCallNotifies ==
    [][/\ lastOp'.op = "return" => IsPrefix(Top.reg, Top.log)
       /\ lastOp'.op = "updateQuantity" /\ outcome' = "returned"
             => observers = <<>>]_vars

\* C1 amended: every addProduct call, and every updateQuantity call whose
\* id is in the catalog, has invoked each subscriber registered at the
\* time of the call, once per registration and in registration order,
\* before anything registered later, when it returns; an updateQuantity
\* call whose id is not in the catalog starts no round.
C1_FoundCallNotifies ==
    [][/\ lastOp'.op = "return"
             => IsPrefix(Top.reg, Top.log) /\ IsPrefix(Top.log, Top.arr)
       /\ lastOp'.op \in {"addProduct", "updateQuantity"}
             => IF lastOp'.op = "updateQuantity" /\ Find(lastOp'.id) = 0
                THEN stack' = CallerStack
                ELSE /\ Len(stack') = Len(CallerStack) + 1
                     /\ stack'[Len(stack')].reg = observers
                     /\ stack'[Len(stack')].log = <<>>]_vars

C1_Witness ==
    /\ stack # <<>>
    /\ ~CanInvoke
    /\ Top.kind = "updateQuantity"
    /\ Len(Top.reg) = 3
    /\ Top.log = Top.reg
    /\ ~Top.live

\* C2: getProducts() returns exactly the products passed to addProduct, in
\* the order of the calls, duplicates of an id included, whatever other
\* calls are interleaved.
C2_InsertionOrder == GetProducts = added

C2_Witness ==
    /\ Len(added) = 2
    /\ added[1] # added[2]
    /\ heap[added[1]].id = heap[added[2]].id
    /\ GetProducts = added
    /\ lastOp.op = "removeObserver"

\* C3: updateQuantity(id, q) with id in the catalog sets the quantity of a
\* product with that id to q and leaves every other product, and the
\* catalog's length and order, as they were.
C3_UpdateFound ==
    [][lastOp'.op = "updateQuantity" /\ Find(lastOp'.id) # 0
          => /\ products' = products
             /\ \E r \in Range(products) :
                   /\ heap[r].id = lastOp'.id
                   /\ heap' = [heap EXCEPT ![r].quantity = lastOp'.q]]_vars

C3_Witness ==
    /\ lastOp.op = "updateQuantity"
    /\ lastOp.found
    /\ Len(products) = 2
    /\ products[1] # products[2]
    /\ heap[products[1]].id = heap[products[2]].id
    /\ heap[lastOp.ref].quantity = lastOp.q
    /\ heap[products[2]].quantity # lastOp.q

\* C4: updateQuantity(id, q) with id not in the catalog leaves the catalog
\* and the subscriber list as they were and returns to its caller without
\* an error.
C4_UpdateAbsent ==
    [][lastOp'.op = "updateQuantity" /\ Find(lastOp'.id) = 0
          => /\ products' = products
             /\ heap' = heap
             /\ observers' = observers
             /\ stack' = CallerStack
             /\ outcome' = "returned"]_vars

C4_Witness ==
    /\ lastOp.op = "updateQuantity"
    /\ ~lastOp.found
    /\ Find(lastOp.id) = 0
    /\ products # <<>>
    /\ observers # <<>>
    /\ outcome = "returned"

\* C5: once removeObserver(cb) has been called, cb is not invoked again
\* unless it is registered again, not even by the round in progress.  Only
\* removeObserver takes a callback out of this.observers, so the claim is
\* that a callback is in this.observers whenever it is invoked.
C5_RemovedNeverInvoked ==
    [][Invokes => NextObserver \in Range(observers)]_vars

\* what getProducts() shows of the mutation that started round f
Applied(f) ==
    /\ f.kind = "addProduct" => f.ref \in Range(GetProducts)
    /\ f.kind = "updateQuantity" => heap[f.ref].quantity = f.q

\* C6 as stated: when a subscriber is invoked, getProducts() holds the
\* product the round's addProduct added, or has the quantity the round's
\* updateQuantity set.
C6_MutationVisible == [][Invokes => Applied(Top)]_vars

\* C6 amended: the same, unless a subscriber invoked earlier in the round
\* has itself called updateQuantity for that product.
C6_MutationVisibleUnlessOverridden ==
    [][Invokes => (Top.kind = "updateQuantity" /\ Top.overridden) \/ Applied(Top)]_vars

C6_Witness ==
    /\ Len(stack) = 1
    /\ Top.kind = "updateQuantity"
    /\ Top.overridden
    /\ Top.idx = 2
    /\ lastOp.op = "render"
    /\ heap[Top.ref].quantity # Top.q

\* C7: the demo script.  After its two addProduct calls getProducts() is
\* Apple, Banana and the subscriber has run twice; after updateQuantity(1,
\* 80) Apple's quantity is 80, Banana is as it was and the subscriber has
\* run three times.
C7_Demo ==
    demoOn /\ Idle =>
        /\ demoPc = 3 => Values = <<Apple, Banana>> /\ demoCount = 2
        /\ demoPc = 4 => /\ Values = <<[Apple EXCEPT !.quantity = 80], Banana>>
                         /\ demoCount = 3

C7_Witness ==
    /\ demoOn
    /\ Idle
    /\ demoPc = 4
    /\ lastOp.op = "return"
    /\ Rendered[1] = [name |-> "Apple", price |-> 5, quantity |-> 80]

\* C8: when a subscriber throws, the exception leaves the addProduct or
\* updateQuantity call: the round ends there, with every subscriber before
\* the throwing one invoked and none after it.
C8_ThrowAborts ==
    [][lastOp'.op = "throw"
          => /\ Top.log = SubSeq(Top.arr, 1, Top.idx)
             /\ lastOp'.caller = Top.arr[Top.idx + 1]
             /\ stack' = <<>>
             /\ outcome' = "threw"]_vars

C8_Witness ==
    /\ lastOp.op = "throw"
    /\ outcome = "threw"
    /\ Idle
    /\ Len(observers) = 3
    /\ lastOp.caller = observers[2]
    /\ Count(lastOp.caller, observers) = 1

\* C9: addObserver(cb) appends cb even when cb is registered already, and
\* a round invokes a callback as often as it is registered;
\* removeObserver(cb) drops every occurrence of cb and keeps the others in
\* their order, and changes nothing when cb is not registered.
C9_SubscriberList ==
    [][/\ lastOp'.op = "addObserver"
             => /\ observers' = Append(observers, lastOp'.obs)
                /\ Count(lastOp'.obs, observers') = Count(lastOp'.obs, observers) + 1
       /\ lastOp'.op = "removeObserver"
             => /\ observers' = SelectSeq(observers, LAMBDA o : o # lastOp'.obs)
                /\ Count(lastOp'.obs, observers') = 0
                /\ lastOp'.obs \notin Range(observers) => observers' = observers
       /\ lastOp'.op = "return"
             => \A c \in Callbacks : Count(c, Top.log) >= Count(c, Top.reg)]_vars

C9_Witness ==
    /\ stack # <<>>
    /\ lastOp.op = "removeObserver"
    /\ lastOp.obs = "cbA"
    /\ Top.arr = <<"cbA", "cbB", "cbA">>
    /\ Top.reg = Top.arr
    /\ observers = <<"cbB">>

\* C10: no step removes or reorders a product or changes a product's id,
\* name or price; the catalog grows by addProduct alone, and a quantity
\* changes by updateQuantity alone.
C10_CatalogGrowsOnly ==
    [][/\ IsPrefix(products, products')
       /\ \A r \in DOMAIN heap :
             /\ r \in DOMAIN heap'
             /\ heap'[r].id = heap[r].id
             /\ heap'[r].name = heap[r].name
             /\ heap'[r].price = heap[r].price
             /\ heap'[r].quantity # heap[r].quantity
                   => lastOp'.op = "updateQuantity"
       /\ products' # products => lastOp'.op = "addProduct"]_vars

C10_Witness ==
    /\ Len(products) = 2
    /\ lastOp.op = "updateQuantity"
    /\ lastOp.found
    /\ heap[products[1]] = [Apple EXCEPT !.quantity = 80]
    /\ heap[products[2]] = Banana

\* C11: after every handleChange(value) the error message in the state is
\* the too-short message when the value is too short, the too-long message
\* when it is too long, and empty otherwise.  The source has no upper limit
\* on the length, so the claim is read for any limit L that some text of the
\* model exceeds: the step must agree with the three-way rule for one of them.
C11_ThreeWayMessage ==
    [][lastEvent' = "handleChange"
          => \E L \in MinLength..(MaxLen - 1) :
                errorMessage' =
                    IF Len(value') < MinLength
                    THEN getErrorMessage(value', "minLength")
                    ELSE IF Len(value') > L
                    THEN getErrorMessage(value', "maxLength")
                    ELSE <<>>]_vars

C13_AbsentInvokesNobody ==
    [][lastOp'.op = "updateQuantity" /\ Find(lastOp'.id) = 0
          => /\ Len(stack') = Len(CallerStack)
             /\ \A i \in DOMAIN stack' :
                   /\ stack'[i].log = CallerStack[i].log
                   /\ stack'[i].idx = CallerStack[i].idx
             /\ ~Invokes => stack' = <<>>]_vars

C13_Witness ==
    /\ lastOp.op = "updateQuantity"
    /\ lastOp.caller = "external"
    /\ ~lastOp.found
    /\ Len(products) = 2
    /\ Len(observers) = 3
    /\ Idle

\* C14: when several products of the catalog have the id, updateQuantity(id,
\* q) sets the quantity of the first of them in insertion order, leaves
\* every other catalog entry, the later ones with that id included, as it
\* was, and starts exactly one round.
C14_FirstDuplicateOnly ==
    [][(/\ lastOp'.op = "updateQuantity"
        /\ \E r \in Range(products) : heap[r].id = lastOp'.id)
          => \E i \in DOMAIN products :
                /\ heap[products[i]].id = lastOp'.id
                /\ \A j \in 1..(i - 1) : heap[products[j]].id # lastOp'.id
                /\ heap'[products[i]].quantity = lastOp'.q
                /\ \A j \in DOMAIN products :
                      j # i => heap'[products[j]] = heap[products[j]]
                /\ Len(stack') = Len(CallerStack) + 1
                /\ stack'[Len(stack')].log = <<>>
                /\ \A k \in DOMAIN CallerStack :
                      stack'[k].log = CallerStack[k].log]_vars

C14_Witness ==
    /\ lastOp.op = "updateQuantity"
    /\ lastOp.caller = "external"
    /\ Len(products) = 2
    /\ heap[products[1]].id = lastOp.id
    /\ heap[products[2]].id = lastOp.id
    /\ lastOp.ref = products[1]
    /\ heap[products[1]].quantity = 80
    /\ heap[products[2]].quantity = 100
    /\ Len(stack) = 1
    /\ Top.idx = 0

\* C15: a removeObserver made by a subscriber leaves the round in progress
\* iterating the list as it was: what the round has still to invoke is the
\* same before and after the removal, and a round that returns has invoked
\* every entry of the list it iterated, the removed one included.  A round
\* started later iterates the list the removal has left, so a subscriber
\* that is invoked while it is not registered is invoked by a round during
\* which a removeObserver was made.
C15_RemovedStillInvokedThisRound ==
    [][/\ lastOp'.op = "removeObserver" /\ Invokes
             => \A i \in DOMAIN stack' :
                   /\ stack'[i].arr = Advanced[i].arr
                   /\ stack'[i].idx = Advanced[i].idx
                   /\ stack'[i].log = Advanced[i].log
       /\ lastOp'.op = "return" => Top.log = Top.arr
       /\ Invokes /\ NextObserver \notin Range(observers) => ~Top.live
       /\ Len(stack') > Len(CallerStack)
             => /\ stack'[Len(stack')].arr = observers'
                /\ stack'[Len(stack')].live]_vars

C15_Witness ==
    /\ stack # <<>>
    /\ lastOp.op = "render"
    /\ lastOp.caller \in Range(Top.reg)
    /\ lastOp.caller \notin Range(observers)
    /\ Top.log[Top.idx] = lastOp.caller
    /\ ~Top.live

\* C16: an addObserver made by a subscriber, in a round during which no
\* removeObserver has been made, puts the new subscriber at the end of the
\* list the round is iterating: the round has it still to invoke, after
\* everything registered before, and cannot return before it has invoked
\* it.  So a round whose every invocation registers a subscriber has a next
\* subscriber after every invocation and never returns.  A round that
\* returns with no removeObserver made during it has invoked the whole
\* list, the subscribers registered during it included, in list order.
C16_RegisteredInRoundInvoked ==
    [][/\ lastOp'.op = "addObserver" /\ Invokes /\ Top.live
             => /\ stack'[Len(stack')].arr = Append(Top.arr, lastOp'.obs)
                /\ stack'[Len(stack')].idx = Top.idx + 1
                /\ stack'[Len(stack')].idx < Len(stack'[Len(stack')].arr)
                /\ stack'[Len(stack')].live
       /\ Invokes /\ Top.idx >= Len(Top.reg) => Top.log = Top.reg \o
             SubSeq(Top.arr, Len(Top.reg) + 1, Top.idx)
       /\ lastOp'.op = "return" /\ Top.live
             => Top.log = observers /\ IsPrefix(Top.reg, observers)]_vars

C16_Witness ==
    /\ stack # <<>>
    /\ Top.live
    /\ Len(Top.reg) = 1
    /\ Top.idx = 3
    /\ Top.arr = observers
    /\ lastOp.op = "render"
    /\ lastOp.caller = Top.arr[3]
    /\ lastOp.caller \notin Range(Top.reg)

\* C17 as stated: when a subscriber throws, the step that carries the
\* exception out of the call changes neither the catalog nor the subscriber
\* list, and the mutation of every call it leaves is still in place after
\* it: the product of an addProduct is in the catalog, the product of an
\* updateQuantity has the new quantity.
C17_ThrowKeepsMutation ==
    [][lastOp'.op = "throw"
          => /\ products' = products
             /\ heap' = heap
             /\ observers' = observers
             /\ \A i \in DOMAIN stack :
                   /\ stack[i].kind = "addProduct"
                         => stack[i].ref \in Range(products')
                   /\ stack[i].kind = "updateQuantity"
                         => heap'[stack[i].ref].quantity = stack[i].q]_vars

\* C17 amended: the same, but the product of an updateQuantity has the new
\* quantity unless a subscriber invoked earlier in the round has itself
\* called updateQuantity for that product.
C17_ThrowKeepsMutationUnlessOverridden ==
    [][lastOp'.op = "throw"
          => /\ products' = products
             /\ heap' = heap
             /\ observers' = observers
             /\ \A i \in DOMAIN stack :
                   /\ stack[i].kind = "addProduct"
                         => stack[i].ref \in Range(products')
                   /\ stack[i].kind = "updateQuantity" /\ ~stack[i].overridden
                         => heap'[stack[i].ref].quantity = stack[i].q]_vars

C17_Witness ==
    /\ lastOp.op = "throw"
    /\ outcome = "threw"
    /\ Idle
    /\ Len(products) = 2
    /\ heap[products[2]].quantity = 80
    /\ Len(observers) = 1
    /\ lastOp.caller = observers[1]

\* C18: addObserver, removeObserver and getProducts (called from outside or
\* by a rendering subscriber) leave the catalog as it was and invoke no
\* subscriber: they start no round and the rounds in progress have invoked
\* exactly what they had.  addProduct and updateQuantity leave the
\* subscriber list as it was; it changes in addObserver and removeObserver
\* steps only.
C18_FrameEffects ==
    [][/\ lastOp'.op \in {"addObserver", "removeObserver", "getProducts", "render"}
             => /\ products' = products
                /\ heap' = heap
                /\ Len(stack') = Len(CallerStack)
                /\ \A i \in DOMAIN stack' :
                      /\ stack'[i].log = CallerStack[i].log
                      /\ stack'[i].idx = CallerStack[i].idx
       /\ lastOp'.op \in {"addProduct", "updateQuantity"}
             => observers' = observers
       /\ observers' # observers
             => lastOp'.op \in {"addObserver", "removeObserver"}]_vars

C18_Witness ==
    /\ stack # <<>>
    /\ lastOp.op = "addObserver"
    /\ lastOp.caller \in Callbacks
    /\ Len(products) = 2
    /\ Top.kind = "updateQuantity"
    /\ Top.arr = observers
    /\ observers[Len(observers)] = lastOp.obs
    /\ Top.idx = 1
====
